---- MODULE Spec2Model ----
(***************************************************************************)
(* Model of jito_grpc_client: Bundle construction (src/bundle.rs), the     *)
(* submission operations and retry policy of JitoClient (src/client.rs)    *)
(* and the region latency selection (src/nodes.rs).                        *)
(***************************************************************************)
EXTENDS Integers, Sequences, FiniteSets, TLC

\* ---------------------------------------------------------------- bounds
MaxTxns == 6          \* longest transaction list a caller passes in the model
MaxRetriesBound == 3  \* largest max_retries a caller configures in the model
MaxWait == 2          \* largest caller-chosen wait bound (ms) in the model
MaxDur == 2           \* largest elapsed duration a probe measures in the model

\* ------------------------------------------------------- program constants
TXNS_LIMIT == 5
DEFAULT_MIN_WAIT == 5
DEFAULT_MAX_WAIT == 25
U8_MOD == 256
U8_MAX == 255

None == [tag |-> "None"]
Some(v) == [tag |-> "Some", val |-> v]
Ok(v) == [tag |-> "Ok", val |-> v]
Err(e) == [tag |-> "Err", err |-> e]

\* JitoClientError variants; info carries the wrapped value, if any
TooManyTxns == [kind |-> "TooManyTxns", info |-> "none"]
SerializeError == [kind |-> "SerializeError", info |-> "bincode"]
WaitParameterError == [kind |-> "WaitParameterError", info |-> "none"]
MaxRetriesError == [kind |-> "MaxRetriesError", info |-> "none"]
AllRegionLatencyMissing == [kind |-> "AllRegionLatencyMissing", info |-> "none"]
SendError(status) == [kind |-> "SendError", info |-> status]
DNSResolution == [kind |-> "DNSResolution", info |-> "io"]
DNSEmpty == [kind |-> "DNSEmpty", info |-> "none"]
TCPConnect == [kind |-> "TCPConnect", info |-> "io"]
GRPCError == [kind |-> "GRPCError", info |-> "transport"]

\* ------------------------------------------------------------ transactions
\* A VersionedTransaction is a signature vector (sigs entries) and a message;
\* encodable tells whether bincode can serialize it.  Its wire form is a
\* length prefix, the signatures, the message.
TxnUniverse ==
    { [sigs |-> 1, msg |-> 1, encodable |-> TRUE],
      [sigs |-> 2, msg |-> 2, encodable |-> TRUE],
      [sigs |-> 1, msg |-> 3, encodable |-> FALSE] }

TxnInputs == UNION { [1..n -> TxnUniverse] : n \in 0..MaxTxns }

\* bincode::serialize(&txn)
bincode_serialize(txn) ==
    IF ~txn.encodable
    THEN Err(SerializeError)
    ELSE Ok(<<txn.sigs>> \o [i \in 1..txn.sigs |-> 0] \o <<txn.msg>>)

Packet(data) ==
    [ data |-> data,
      meta |-> [ size |-> Len(data), addr |-> "0.0.0.0", port |-> 0,
                 flags |-> None, sender_stake |-> 0 ] ]

\* mutant: a failing transaction is skipped and the loop goes on
RECURSIVE serialize_skip_failed(_, _, _, _)
serialize_skip_failed(txns, i, packets, calls) ==
    IF i > Len(txns)
    THEN [res |-> Ok(packets), calls |-> calls]
    ELSE LET r == bincode_serialize(txns[i]) IN
         IF r.tag = "Err"
         THEN serialize_skip_failed(txns, i + 1, packets, calls + 1)
         ELSE serialize_skip_failed(txns, i + 1, Append(packets, Packet(r.val)), calls + 1)

\* for txn in txns { bincode::serialize(&txn)?; packets.push(packet) }
\* calls counts the bincode::serialize invocations made so far
RECURSIVE serialize_loop(_, _, _, _)
serialize_loop(txns, i, packets, calls) ==
    IF i > Len(txns)
    THEN [res |-> Ok(packets), calls |-> calls]
    ELSE LET r == bincode_serialize(txns[i]) IN
         IF r.tag = "Err"
         THEN [res |-> r, calls |-> calls + 1]
         ELSE serialize_loop(txns, i + 1, Append(packets, Packet(r.val)), calls + 1)

\* mutant: packets are pushed to the front, reversing the input order
RECURSIVE serialize_push_front(_, _, _, _)
serialize_push_front(txns, i, packets, calls) ==
    IF i > Len(txns)
    THEN [res |-> Ok(packets), calls |-> calls]
    ELSE LET r == bincode_serialize(txns[i]) IN
         IF r.tag = "Err"
         THEN [res |-> r, calls |-> calls + 1]
         ELSE serialize_push_front(txns, i + 1, <<Packet(r.val)>> \o packets, calls + 1)

Bundle_serialize_reversed(txns) == serialize_push_front(txns, 1, <<>>, 0)

Bundle_serialize(txns) == serialize_loop(txns, 1, <<>>, 0)

\* mutant: the length check is made after the packets have been serialized
Bundle_create_late_check(txns) ==
    LET s == Bundle_serialize(txns) IN
    IF s.res.tag = "Err"
    THEN s
    ELSE IF Len(txns) > TXNS_LIMIT
         THEN [res |-> Err(TooManyTxns), calls |-> s.calls]
         ELSE [res |-> Ok([header |-> None, packets |-> s.res.val]), calls |-> s.calls]

Bundle_create(txns) ==
    IF Len(txns) > TXNS_LIMIT
    THEN [res |-> Err(TooManyTxns), calls |-> 0]
    ELSE LET s == Bundle_serialize(txns) IN
         IF s.res.tag = "Err"
         THEN s
         ELSE [res |-> Ok([header |-> None, packets |-> s.res.val]), calls |-> s.calls]

\* ------------------------------------------------------------ RetryLogic
RetryCounts == 0..MaxRetriesBound
WaitValues == 0..MaxWait
Uuids == {"uuid1", "uuid2"}
Statuses == {"Unavailable", "DeadlineExceeded"}

RetryLogic_new(max_retries) ==
    [max_retries |-> max_retries, min_wait |-> DEFAULT_MIN_WAIT, max_wait |-> DEFAULT_MAX_WAIT]

\* mutant: only strictly inverted bounds are rejected
new_with_wait_bounds_strict(max_retries, min_wait, max_wait) ==
    IF min_wait > max_wait
    THEN Err(WaitParameterError)
    ELSE Ok([max_retries |-> max_retries, min_wait |-> min_wait, max_wait |-> max_wait])

new_with_wait_bounds(max_retries, min_wait, max_wait) ==
    IF min_wait >= max_wait
    THEN Err(WaitParameterError)
    ELSE Ok([max_retries |-> max_retries, min_wait |-> min_wait, max_wait |-> max_wait])

\* mutant: the upper bound grows with the number of failed attempts so far
jitter_backoff(rl, n) == rl.min_wait .. (rl.max_wait * (n + 1))

\* rand::random_range(min_wait..=max_wait): the values one sample can take;
\* n is the value of the retries counter at the time of the draw, which the
\* code does not pass on.  An empty range makes random_range panic.
jitter(rl, n) == rl.min_wait .. rl.max_wait

\* ------------------------------------------------------------ NodeRegion
ALL == <<"AM", "DB", "FRA", "LN", "NY", "SLC", "SG", "TOK">>
Durations == 1..MaxDur
DnsOutcomes == {"error", "empty", "addr"}
ConnectOutcomes == {"error", "connected"}

\* to_socket_addrs()? .next().ok_or(DNSEmpty)?  connect_timeout(..)?  elapsed
ping(dns, conn, elapsed) ==
    IF dns = "error" THEN Err(DNSResolution)
    ELSE IF dns = "empty" THEN Err(DNSEmpty)
    ELSE IF conn = "error" THEN Err(TCPConnect)
    ELSE Ok(elapsed)

\* for (region, result) in results { if let Ok(duration) = result { push } }
RECURSIVE successful_loop(_, _, _)
successful_loop(rs, i, acc) ==
    IF i > Len(rs)
    THEN acc
    ELSE IF rs[i][2].tag = "Ok"
         THEN successful_loop(rs, i + 1, Append(acc, <<rs[i][1], rs[i][2].val>>))
         ELSE successful_loop(rs, i + 1, acc)

successful_pings(rs) == successful_loop(rs, 1, <<>>)

\* mutant: a later probe that ties with the best one replaces it
RECURSIVE fastest_loop_last_tie(_, _, _)
fastest_loop_last_tie(pings, i, fastest) ==
    IF i > Len(pings)
    THEN fastest
    ELSE IF fastest = None
         THEN fastest_loop_last_tie(pings, i + 1, Some(pings[i]))
         ELSE IF pings[i][2] <= fastest.val[2]
              THEN fastest_loop_last_tie(pings, i + 1, Some(pings[i]))
              ELSE fastest_loop_last_tie(pings, i + 1, fastest)

\* for (region, duration) in successful_pings { match fastest { .. } }
RECURSIVE fastest_loop(_, _, _)
fastest_loop(pings, i, fastest) ==
    IF i > Len(pings)
    THEN fastest
    ELSE IF fastest = None
         THEN fastest_loop(pings, i + 1, Some(pings[i]))
         ELSE IF pings[i][2] < fastest.val[2]
              THEN fastest_loop(pings, i + 1, Some(pings[i]))
              ELSE fastest_loop(pings, i + 1, fastest)

\* mutant: with no successful probe the first catalog entry is returned
ok_or_first_region(fastest) ==
    IF fastest = None THEN Ok(<<ALL[1], 0>>) ELSE Ok(fastest.val)

\* fastest.ok_or(JitoClientError::AllRegionLatencyMissing)
ok_or_missing(fastest) ==
    IF fastest = None THEN Err(AllRegionLatencyMissing) ELSE Ok(fastest.val)

\* region.endpoint()
endpoint_of(region) ==
    CASE region = "AM" -> "https://amsterdam.mainnet.block-engine.jito.wtf:443"
      [] region = "DB" -> "https://dublin.mainnet.block-engine.jito.wtf:443"
      [] region = "FRA" -> "https://frankfurt.mainnet.block-engine.jito.wtf:443"
      [] region = "LN" -> "https://london.mainnet.block-engine.jito.wtf:443"
      [] region = "NY" -> "https://ny.mainnet.block-engine.jito.wtf:443"
      [] region = "SLC" -> "https://slc.mainnet.block-engine.jito.wtf:443"
      [] region = "SG" -> "https://singapore.mainnet.block-engine.jito.wtf:443"
      [] region = "TOK" -> "https://tokyo.mainnet.block-engine.jito.wtf:443"

\* ------------------------------------------------------------- JitoClient
SERVER_URL2 == "https://ny.testnet.block-engine.jito.wtf:443"
\* what a caller hands to JitoClient::new: a URL, or a string that is none
CallerEndpoints == {SERVER_URL2, ""}
TlsOutcomes == {"configured", "error"}
ConnectResults == {"connected", "error"}

\* Endpoint::from_shared(endpoint)?
from_shared(ep) == IF ep = "" THEN Err(GRPCError) ELSE Ok(ep)

\* ------------------------------------------------------------------ state
VARIABLES
    b_pc,       \* Bundle::create driver: "ready" (input chosen) or "done"
    b_txns,     \* the transaction list handed to Bundle::create
    b_out,      \* what Bundle::create returned, with its serialization count
    pc,         \* submission call: "idle", "rpc" (awaiting send_bundle),
                \* "delay" (awaiting Delay), "done" (returned), "panic"
    op,         \* "none", "send" or "send_with_retry"
    txnsIn,     \* the transactions argument of the running call
    built,      \* what Bundle::create returned to the running call
    builds,     \* number of Bundle::create calls made by the running call
    request,    \* SendBundleRequest { bundle: Some(bundle) }
    retry_logic,\* the RetryLogic argument of the running call
    retries,    \* let mut retries = 0u8
    ret,        \* the value the call returned
    cfg,        \* the RetryLogic construction result the caller holds
    cfgVia,     \* how that RetryLogic was made: "new", "new_with_wait_bounds", "literal"
    cfgArgs,    \* the arguments it was made from
    attempts,   \* number of send_bundle RPCs issued by the running call
    failures,   \* number of those that came back with an error status
    firstSent,  \* payload of the first RPC of the running call
    lastSent,   \* payload of the latest RPC of the running call
    lastResp,   \* the latest response of the channel
    delayCount, \* number of Delay awaits completed by the running call
    lastDelay,  \* the latest duration drawn by jitter(), in ms
    ctor,       \* the constructor called: "none", "new", "new_dynamic_region"
    conn,       \* "Disconnected", "Connecting", "Connected", "ConnectFailed"
    endpoint,   \* JitoClient::endpoint of the client handle, None without one
    chosen,     \* the URL the constructor built its Endpoint from
    connAttempts, \* number of Endpoint::connect() calls the constructor made
    ctorRet,    \* what the constructor returned
    measured,   \* the region, or the error, measure_latency gave new_dynamic_region
    n_pc,       \* measure_latency: "idle", "join" (awaiting join_all), "done"
    results,    \* the (region, ping result) pairs join_all has so far
    n_ret,      \* the value measure_latency returned
    n_started,  \* number of tasks whose ping() has been entered
    n_stage,    \* the blocking call the running ping() is in: "none", "dns", "connect"
    n_dns,      \* to_socket_addrs calls made by the latest ping()
    n_conn,     \* connect_timeout calls made by the latest ping()
    n_dnsOut,   \* what the latest to_socket_addrs call gave
    n_connOut   \* what the latest connect_timeout call gave

bundleVars == <<b_pc, b_txns, b_out>>
cfgVars == <<cfg, cfgVia, cfgArgs>>
callVars == <<pc, op, txnsIn, built, builds, request, retry_logic, retries, ret,
              attempts, failures, firstSent, lastSent, lastResp, delayCount, lastDelay>>
connVars == <<ctor, conn, endpoint, chosen, connAttempts, ctorRet, measured>>
clientVars == <<cfgVars, callVars, connVars>>
probeVars == <<n_started, n_stage, n_dns, n_conn, n_dnsOut, n_connOut>>
nodeVars == <<n_pc, results, n_ret, probeVars>>
vars == <<bundleVars, clientVars, nodeVars>>

BundleIdle ==
    /\ b_pc = "off"
    /\ b_txns = <<>>
    /\ b_out = None

NodesIdle ==
    /\ n_pc = "idle"
    /\ results = <<>>
    /\ n_ret = None
    /\ n_started = 0
    /\ n_stage = "none"
    /\ n_dns = 0
    /\ n_conn = 0
    /\ n_dnsOut = "none"
    /\ n_connOut = "none"

\* no constructor has been called yet
ClientDisconnected ==
    /\ ctor = "none"
    /\ conn = "Disconnected"
    /\ endpoint = None
    /\ chosen = None
    /\ connAttempts = 0
    /\ ctorRet = None
    /\ measured = None

\* the client JitoClient::new(SERVER_URL2, None) gave
ClientConnected ==
    /\ ctor = "new"
    /\ conn = "Connected"
    /\ endpoint = SERVER_URL2
    /\ chosen = SERVER_URL2
    /\ connAttempts = 1
    /\ ctorRet = Ok("client")
    /\ measured = None

ClientIdle ==
    /\ pc = "idle"
    /\ op = "none"
    /\ txnsIn = <<>>
    /\ built = None
    /\ builds = 0
    /\ request = None
    /\ retry_logic = None
    /\ retries = 0
    /\ ret = None
    /\ cfg = None
    /\ cfgVia = "none"
    /\ cfgArgs = <<>>
    /\ attempts = 0
    /\ failures = 0
    /\ firstSent = None
    /\ lastSent = None
    /\ lastResp = None
    /\ delayCount = 0
    /\ lastDelay = 0

\* ------------------------------------------------- Bundle::create applied
InitBundle ==
    /\ b_pc = "ready"
    /\ b_txns \in TxnInputs
    /\ b_out = None
    /\ ClientIdle
    /\ ClientConnected
    /\ NodesIdle

BundleCreate ==
    /\ b_pc = "ready"
    /\ b_out' = Bundle_create(b_txns)
    /\ b_pc' = "done"
    /\ UNCHANGED <<b_txns, clientVars, nodeVars>>

NextBundle == BundleCreate

SpecBundle == InitBundle /\ [][NextBundle]_vars

\* ------------------------------------------------ the caller's RetryLogic
\* a caller makes a RetryLogic for a call on the client it holds
MakeRetryLogicNew ==
    /\ conn = "Connected"
    /\ pc = "idle"
    /\ \E mr \in RetryCounts :
         /\ cfg' = Ok(RetryLogic_new(mr))
         /\ cfgVia' = "new"
         /\ cfgArgs' = <<mr>>
    /\ UNCHANGED <<bundleVars, nodeVars, connVars, callVars>>

MakeRetryLogicWithWaitBounds ==
    /\ conn = "Connected"
    /\ pc = "idle"
    /\ \E mr \in RetryCounts, lo \in WaitValues, hi \in WaitValues :
         /\ cfg' = new_with_wait_bounds(mr, lo, hi)
         /\ cfgVia' = "new_with_wait_bounds"
         /\ cfgArgs' = <<mr, lo, hi>>
    /\ UNCHANGED <<bundleVars, nodeVars, connVars, callVars>>

\* the fields of RetryLogic are pub: a caller can write the struct out
MakeRetryLogicLiteral ==
    /\ conn = "Connected"
    /\ pc = "idle"
    /\ \E mr \in RetryCounts, lo \in WaitValues, hi \in WaitValues :
         /\ cfg' = Ok([max_retries |-> mr, min_wait |-> lo, max_wait |-> hi])
         /\ cfgVia' = "literal"
         /\ cfgArgs' = <<mr, lo, hi>>
    /\ UNCHANGED <<bundleVars, nodeVars, connVars, callVars>>

\* ------------------------------------------------------- JitoClient::send
\* self.client.send_bundle(request) is started with the given payload
IssueRpc(payload) ==
    /\ attempts' = attempts + 1
    /\ lastSent' = payload
    /\ firstSent' = IF attempts = 0 THEN payload ELSE firstSent

\* mutant: a failed build is replaced by an empty bundle and submitted
BuildAndSubmitDefault(txns) ==
    LET b == Bundle_create(txns) IN
    /\ txnsIn' = txns
    /\ built' = b
    /\ builds' = builds + 1
    /\ retries' = 0
    /\ request' = [bundle |-> Some(IF b.res.tag = "Err"
                                    THEN [header |-> None, packets |-> <<>>]
                                    ELSE b.res.val)]
    /\ IssueRpc(request')
    /\ pc' = "rpc"
    /\ ret' = None
    /\ UNCHANGED <<failures, lastResp, delayCount, lastDelay>>

\* Bundle::create(transactions)?  then the first send_bundle, up to its await
BuildAndSubmit(txns) ==
    LET b == Bundle_create(txns) IN
    /\ txnsIn' = txns
    /\ built' = b
    /\ builds' = builds + 1
    /\ retries' = 0
    /\ IF b.res.tag = "Err"
       THEN /\ ret' = b.res
            /\ pc' = "done"
            /\ UNCHANGED <<request, attempts, firstSent, lastSent>>
       ELSE /\ request' = [bundle |-> Some(b.res.val)]
            /\ IssueRpc(request')
            /\ pc' = "rpc"
            /\ ret' = None
    /\ UNCHANGED <<failures, lastResp, delayCount, lastDelay>>

send ==
    /\ conn = "Connected"
    /\ pc = "idle"
    /\ op' = "send"
    /\ \E txns \in TxnInputs : BuildAndSubmit(txns)
    /\ UNCHANGED <<bundleVars, nodeVars, connVars, cfgVars, retry_logic>>

\* mutant: the stop test is made at the head of the loop, before the RPC
send_with_retry_test_first ==
    /\ conn = "Connected"
    /\ pc = "idle"
    /\ cfg.tag = "Ok"
    /\ op' = "send_with_retry"
    /\ retry_logic' = cfg.val
    /\ cfg' = None
    /\ \E txns \in TxnInputs :
         LET b == Bundle_create(txns) IN
         IF b.res.tag = "Ok" /\ cfg.val.max_retries = 0
         THEN /\ txnsIn' = txns
              /\ built' = b
              /\ builds' = builds + 1
              /\ retries' = 0
              /\ request' = [bundle |-> Some(b.res.val)]
              /\ ret' = Err(MaxRetriesError)
              /\ pc' = "done"
              /\ UNCHANGED <<attempts, firstSent, lastSent, failures, lastResp,
                             delayCount, lastDelay>>
         ELSE BuildAndSubmit(txns)
    /\ UNCHANGED <<bundleVars, nodeVars, connVars, cfgVia, cfgArgs>>

send_with_retry ==
    /\ conn = "Connected"
    /\ pc = "idle"
    /\ cfg.tag = "Ok"
    /\ op' = "send_with_retry"
    /\ retry_logic' = cfg.val
    /\ cfg' = None
    /\ \E txns \in TxnInputs : BuildAndSubmit(txns)
    /\ UNCHANGED <<bundleVars, nodeVars, connVars, cfgVia, cfgArgs>>

\* mutant: send starts the RPC again when it comes back with an error
SendResponseRetry ==
    /\ pc = "rpc"
    /\ op = "send"
    /\ \/ \E u \in Uuids :
            /\ lastResp' = Ok(u)
            /\ ret' = Ok(u)
            /\ pc' = "done"
            /\ UNCHANGED <<failures, attempts, firstSent, lastSent>>
       \/ \E s \in Statuses :
            /\ lastResp' = Err(s)
            /\ failures' = failures + 1
            /\ IF attempts < 2
               THEN /\ IssueRpc(request)
                    /\ pc' = "rpc"
                    /\ UNCHANGED ret
               ELSE /\ ret' = Err(SendError(s))
                    /\ pc' = "done"
                    /\ UNCHANGED <<attempts, firstSent, lastSent>>
    /\ UNCHANGED <<bundleVars, nodeVars, connVars, cfgVars, op, txnsIn, built, builds, request, retry_logic,
                   retries, delayCount, lastDelay>>

\* the RPC of send completes: response.into_inner().uuid, or ? on the status
SendResponse ==
    /\ pc = "rpc"
    /\ op = "send"
    /\ \/ \E u \in Uuids :
            /\ lastResp' = Ok(u)
            /\ ret' = Ok(u)
            /\ UNCHANGED failures
       \/ \E s \in Statuses :
            /\ lastResp' = Err(s)
            /\ ret' = Err(SendError(s))
            /\ failures' = failures + 1
    /\ pc' = "done"
    /\ UNCHANGED <<bundleVars, nodeVars, connVars, cfgVars, op, txnsIn, built, builds, request, retry_logic,
                   retries, attempts, firstSent, lastSent, delayCount, lastDelay>>

\* Ok(response) => return Ok(response.into_inner().uuid)
RetryResponseOk ==
    /\ pc = "rpc"
    /\ op = "send_with_retry"
    /\ \E u \in Uuids :
         /\ lastResp' = Ok(u)
         /\ ret' = Ok(u)
    /\ pc' = "done"
    /\ UNCHANGED <<bundleVars, nodeVars, connVars, cfgVars, op, txnsIn, built, builds, request, retry_logic,
                   retries, attempts, failures, firstSent, lastSent, delayCount, lastDelay>>

\* mutant: the failure that exhausts the retries returns at once, with no delay
RetryResponseErrNoFinalDelay ==
    /\ pc = "rpc"
    /\ op = "send_with_retry"
    /\ \E s \in Statuses : lastResp' = Err(s)
    /\ failures' = failures + 1
    /\ IF retries + 1 >= retry_logic.max_retries
       THEN /\ ret' = Err(MaxRetriesError)
            /\ pc' = "done"
            /\ UNCHANGED lastDelay
       ELSE IF jitter(retry_logic, retries) = {}
            THEN /\ pc' = "panic"
                 /\ UNCHANGED <<lastDelay, ret>>
            ELSE /\ \E d \in jitter(retry_logic, retries) : lastDelay' = d
                 /\ pc' = "delay"
                 /\ UNCHANGED ret
    /\ UNCHANGED <<bundleVars, nodeVars, connVars, cfgVars, op, txnsIn, built, builds, request,
                   retry_logic, retries, attempts, firstSent, lastSent, delayCount>>

\* Err(e) => log, Delay::new(retry_logic.jitter()) up to its await
RetryResponseErr ==
    /\ pc = "rpc"
    /\ op = "send_with_retry"
    /\ \E s \in Statuses : lastResp' = Err(s)
    /\ failures' = failures + 1
    /\ IF jitter(retry_logic, retries) = {}
       THEN /\ pc' = "panic"
            /\ UNCHANGED lastDelay
       ELSE /\ \E d \in jitter(retry_logic, retries) : lastDelay' = d
            /\ pc' = "delay"
    /\ UNCHANGED <<bundleVars, nodeVars, connVars, cfgVars, op, txnsIn, built, builds, request, retry_logic,
                   retries, ret, attempts, firstSent, lastSent, delayCount>>

\* mutant: the bundle is built again before every further attempt
DelayElapsedRebuild ==
    /\ pc = "delay"
    /\ delayCount' = delayCount + 1
    /\ retries' = (retries + 1) % U8_MOD
    /\ IF retries' >= retry_logic.max_retries
       THEN /\ ret' = Err(MaxRetriesError)
            /\ pc' = "done"
            /\ UNCHANGED <<attempts, firstSent, lastSent, builds>>
       ELSE /\ builds' = builds + 1
            /\ IssueRpc(request)
            /\ pc' = "rpc"
            /\ UNCHANGED ret
    /\ UNCHANGED <<bundleVars, nodeVars, connVars, cfgVars, op, txnsIn, built, request, retry_logic,
                   failures, lastResp, lastDelay>>

\* mutant: the stop test is made before the counter is incremented
DelayElapsedLateStop ==
    /\ pc = "delay"
    /\ delayCount' = delayCount + 1
    /\ retries' = (retries + 1) % U8_MOD
    /\ IF retries >= retry_logic.max_retries
       THEN /\ ret' = Err(MaxRetriesError)
            /\ pc' = "done"
            /\ UNCHANGED <<attempts, firstSent, lastSent>>
       ELSE /\ IssueRpc(request)
            /\ pc' = "rpc"
            /\ UNCHANGED ret
    /\ UNCHANGED <<bundleVars, nodeVars, connVars, cfgVars, op, txnsIn, built, builds, request, retry_logic,
                   failures, lastResp, lastDelay>>

\* mutant: a call that runs out of retries moves the client to another endpoint
DelayElapsedMigrate ==
    /\ pc = "delay"
    /\ delayCount' = delayCount + 1
    /\ retries' = (retries + 1) % U8_MOD
    /\ IF retries' >= retry_logic.max_retries
       THEN /\ ret' = Err(MaxRetriesError)
            /\ pc' = "done"
            /\ endpoint' = endpoint_of(ALL[1])
            /\ UNCHANGED <<attempts, firstSent, lastSent>>
       ELSE /\ IssueRpc(request)
            /\ pc' = "rpc"
            /\ UNCHANGED <<ret, endpoint>>
    /\ UNCHANGED <<bundleVars, nodeVars, ctor, conn, chosen, connAttempts, ctorRet, measured,
                   cfgVars, op, txnsIn, built, builds, request, retry_logic,
                   failures, lastResp, lastDelay>>

\* mutant: the loop stops only when the counter has passed max_retries
DelayElapsedStrictStop ==
    /\ pc = "delay"
    /\ delayCount' = delayCount + 1
    /\ retries' = (retries + 1) % U8_MOD
    /\ IF retries' > retry_logic.max_retries
       THEN /\ ret' = Err(MaxRetriesError)
            /\ pc' = "done"
            /\ UNCHANGED <<attempts, firstSent, lastSent>>
       ELSE /\ IssueRpc(request)
            /\ pc' = "rpc"
            /\ UNCHANGED ret
    /\ UNCHANGED <<bundleVars, nodeVars, connVars, cfgVars, op, txnsIn, built, builds, request, retry_logic,
                   failures, lastResp, lastDelay>>

\* the Delay elapses: retries += 1; stop at max_retries, else the loop
\* starts send_bundle(request.clone()) again
DelayElapsed ==
    /\ pc = "delay"
    /\ delayCount' = delayCount + 1
    /\ retries' = (retries + 1) % U8_MOD
    /\ IF retries' >= retry_logic.max_retries
       THEN /\ ret' = Err(MaxRetriesError)
            /\ pc' = "done"
            /\ UNCHANGED <<attempts, firstSent, lastSent>>
       ELSE /\ IssueRpc(request)
            /\ pc' = "rpc"
            /\ UNCHANGED ret
    /\ UNCHANGED <<bundleVars, nodeVars, connVars, cfgVars, op, txnsIn, built, builds, request, retry_logic,
                   failures, lastResp, lastDelay>>

\* the caller has the outcome; the client is ready for the next call
CallOver ==
    /\ pc \in {"done", "panic"}
    /\ pc' = "idle"
    /\ op' = "none"
    /\ txnsIn' = <<>>
    /\ built' = None
    /\ builds' = 0
    /\ request' = None
    /\ retry_logic' = None
    /\ retries' = 0
    /\ ret' = None
    /\ attempts' = 0
    /\ failures' = 0
    /\ firstSent' = None
    /\ lastSent' = None
    /\ lastResp' = None
    /\ delayCount' = 0
    /\ lastDelay' = 0
    /\ cfgVia' = IF cfg = None THEN "none" ELSE cfgVia
    /\ cfgArgs' = IF cfg = None THEN <<>> ELSE cfgArgs
    /\ UNCHANGED <<bundleVars, nodeVars, connVars, cfg>>

Init == BundleIdle /\ ClientIdle /\ ClientConnected /\ NodesIdle

Next ==
    \/ MakeRetryLogicNew
    \/ MakeRetryLogicWithWaitBounds
    \/ MakeRetryLogicLiteral
    \/ send
    \/ send_with_retry
    \/ SendResponse
    \/ RetryResponseOk
    \/ RetryResponseErr
    \/ DelayElapsed
    \/ CallOver

Spec == Init /\ [][Next]_vars

\* each RPC completes and each Delay elapses
Fairness ==
    /\ WF_vars(SendResponse)
    /\ WF_vars(RetryResponseOk \/ RetryResponseErr)
    /\ WF_vars(DelayElapsed)

SpecFair == Spec /\ Fairness

\* -------------------------------- the retry loop over every u8 max_retries
\* a one-transaction list that builds
LoopTxns == <<[sigs |-> 1, msg |-> 1, encodable |-> TRUE]>>

\* new_with_wait_bounds(mr, 0, 1) for every u8 mr
LoopRetryLogics == { new_with_wait_bounds(mr, 0, 1).val : mr \in 0..U8_MAX }

\* send_with_retry(LoopTxns, rl) has built the bundle and awaits its first RPC
InitLoop ==
    /\ BundleIdle
    /\ ClientConnected
    /\ NodesIdle
    /\ retry_logic \in LoopRetryLogics
    /\ cfg = None
    /\ cfgVia = "new_with_wait_bounds"
    /\ cfgArgs = <<retry_logic.max_retries, 0, 1>>
    /\ op = "send_with_retry"
    /\ pc = "rpc"
    /\ txnsIn = LoopTxns
    /\ built = Bundle_create(LoopTxns)
    /\ builds = 1
    /\ request = [bundle |-> Some(built.res.val)]
    /\ retries = 0
    /\ ret = None
    /\ attempts = 1
    /\ failures = 0
    /\ firstSent = request
    /\ lastSent = request
    /\ lastResp = None
    /\ delayCount = 0
    /\ lastDelay = 0

NextLoop ==
    \/ RetryResponseOk
    \/ RetryResponseErr
    \/ DelayElapsed
    \/ CallOver

SpecLoop == InitLoop /\ [][NextLoop]_vars

SpecLoopFair == SpecLoop /\ Fairness

\* ------------------------------------------- NodeRegion::measure_latency
InitNodes == BundleIdle /\ ClientIdle /\ ClientDisconnected /\ NodesIdle

\* the tasks are collected and join_all(tasks) is awaited
measure_latency_begin ==
    /\ n_pc = "idle"
    /\ n_pc' = "join"
    /\ results' = <<>>
    /\ n_ret' = None
    /\ n_started' = 0
    /\ n_stage' = "none"
    /\ n_dns' = 0
    /\ n_conn' = 0
    /\ n_dnsOut' = "none"
    /\ n_connOut' = "none"

measure_latency ==
    /\ measure_latency_begin
    /\ UNCHANGED <<bundleVars, clientVars>>

\* join_all polls the next task, which enters region.ping(): let start =
\* Instant::now(), then the blocking to_socket_addrs call.  The tasks have no
\* await of their own: a task is polled only when the ping() of the task
\* before it in the catalog has returned.
PollProbe ==
    /\ n_pc = "join"
    /\ n_stage = "none"
    /\ n_started = Len(results)
    /\ n_started < Len(ALL)
    /\ n_started' = n_started + 1
    /\ n_stage' = "dns"
    /\ n_dns' = 0
    /\ n_conn' = 0
    /\ n_dnsOut' = "none"
    /\ n_connOut' = "none"
    /\ UNCHANGED <<n_pc, results, n_ret, bundleVars, clientVars>>

\* mutant: a resolution that fails is tried once more
ProbeDnsRetry ==
    /\ n_pc = "join"
    /\ n_stage = "dns"
    /\ n_dns' = n_dns + 1
    /\ \E dns \in DnsOutcomes :
         /\ n_dnsOut' = dns
         /\ IF dns = "addr"
            THEN /\ n_stage' = "connect"
                 /\ UNCHANGED results
            ELSE IF n_dns = 0
                 THEN UNCHANGED <<n_stage, results>>
                 ELSE /\ n_stage' = "none"
                      /\ results' = Append(results,
                             <<ALL[Len(results) + 1], ping(dns, "connected", 1)>>)
    /\ UNCHANGED <<n_pc, n_ret, n_started, n_conn, n_connOut, bundleVars, clientVars>>

\* to_socket_addrs() returns: an error or an empty list ends the ping(),
\* otherwise connect_timeout to the first address is entered
ProbeDns ==
    /\ n_pc = "join"
    /\ n_stage = "dns"
    /\ n_dns' = n_dns + 1
    /\ \E dns \in DnsOutcomes :
         /\ n_dnsOut' = dns
         /\ IF dns = "addr"
            THEN /\ n_stage' = "connect"
                 /\ UNCHANGED results
            ELSE /\ n_stage' = "none"
                 /\ results' = Append(results,
                        <<ALL[Len(results) + 1], ping(dns, "connected", 1)>>)
    /\ UNCHANGED <<n_pc, n_ret, n_started, n_conn, n_connOut, bundleVars, clientVars>>

\* connect_timeout(&addr, TIMEOUT) returns; the ping() ends with the error or
\* with start.elapsed()
ProbeConnect ==
    /\ n_pc = "join"
    /\ n_stage = "connect"
    /\ n_conn' = n_conn + 1
    /\ n_stage' = "none"
    /\ \E c \in ConnectOutcomes, elapsed \in Durations :
         /\ n_connOut' = c
         /\ results' = Append(results, <<ALL[Len(results) + 1], ping(n_dnsOut, c, elapsed)>>)
    /\ UNCHANGED <<n_pc, n_ret, n_started, n_dns, n_dnsOut, bundleVars, clientVars>>

\* mutant: the first successful probe ends the wait
AggregateFirstSuccess ==
    /\ n_pc = "join"
    /\ n_stage = "none"
    /\ \/ Len(results) = Len(ALL)
       \/ Len(results) >= 1 /\ results[Len(results)][2].tag = "Ok"
    /\ n_ret' = ok_or_missing(fastest_loop(successful_pings(results), 1, None))
    /\ n_pc' = "done"
    /\ UNCHANGED <<results, probeVars, bundleVars, clientVars>>

\* join_all is complete: filter the successes, fold to the fastest, return
Aggregate ==
    /\ n_pc = "join"
    /\ Len(results) = Len(ALL)
    /\ n_ret' = ok_or_missing(fastest_loop(successful_pings(results), 1, None))
    /\ n_pc' = "done"
    /\ UNCHANGED <<results, probeVars, bundleVars, clientVars>>

\* the caller has the outcome; the locals of measure_latency are gone
measure_latency_end ==
    /\ n_pc' = "idle"
    /\ results' = <<>>
    /\ n_ret' = None
    /\ n_started' = 0
    /\ n_stage' = "none"
    /\ n_dns' = 0
    /\ n_conn' = 0
    /\ n_dnsOut' = "none"
    /\ n_connOut' = "none"

MeasureOver ==
    /\ n_pc = "done"
    /\ measure_latency_end
    /\ UNCHANGED <<bundleVars, clientVars>>

NextNodes ==
    \/ measure_latency
    \/ PollProbe
    \/ ProbeDns
    \/ ProbeConnect
    \/ Aggregate
    \/ MeasureOver

SpecNodes == InitNodes /\ [][NextNodes]_vars

\* ---------------------------------------------- JitoClient constructors
InitClient == BundleIdle /\ ClientIdle /\ ClientDisconnected /\ NodesIdle

\* self.endpoint
get_endpoint == endpoint

\* Endpoint::from_shared(endpoint)?.tls_config(..)?. .. .connect(), up to its
\* await
new ==
    /\ ctor = "none"
    /\ conn = "Disconnected"
    /\ ctor' = "new"
    /\ \E ep \in CallerEndpoints, tls \in TlsOutcomes :
         IF from_shared(ep).tag = "Err" \/ tls = "error"
         THEN /\ ctorRet' = Err(GRPCError)
              /\ UNCHANGED <<conn, chosen, connAttempts>>
         ELSE /\ conn' = "Connecting"
              /\ chosen' = ep
              /\ connAttempts' = connAttempts + 1
              /\ UNCHANGED ctorRet
    /\ UNCHANGED <<endpoint, measured, bundleVars, nodeVars, cfgVars, callVars>>

\* NodeRegion::measure_latency() is called and awaited
new_dynamic_region ==
    /\ ctor = "none"
    /\ conn = "Disconnected"
    /\ ctor' = "new_dynamic_region"
    /\ measure_latency_begin
    /\ UNCHANGED <<conn, endpoint, chosen, connAttempts, ctorRet, measured,
                   bundleVars, cfgVars, callVars>>

\* mutant: the channel goes to the first catalog entry, whatever was measured
RegionMeasuredFirstEntry ==
    /\ ctor = "new_dynamic_region"
    /\ n_pc = "done"
    /\ measured' = IF n_ret.tag = "Ok" THEN Ok(n_ret.val[1]) ELSE n_ret
    /\ measure_latency_end
    /\ \E tls \in TlsOutcomes :
         IF tls = "error"
         THEN /\ ctorRet' = Err(GRPCError)
              /\ UNCHANGED <<conn, chosen, connAttempts>>
         ELSE /\ conn' = "Connecting"
              /\ chosen' = endpoint_of(ALL[1])
              /\ connAttempts' = connAttempts + 1
              /\ UNCHANGED ctorRet
    /\ UNCHANGED <<ctor, endpoint, bundleVars, cfgVars, callVars>>

\* measure_latency().await? .0.endpoint(), then
\* Endpoint::from_static(fastest_endpoint).tls_config(..)?. .. .connect(), up
\* to its await
RegionMeasured ==
    /\ ctor = "new_dynamic_region"
    /\ n_pc = "done"
    /\ measured' = IF n_ret.tag = "Ok" THEN Ok(n_ret.val[1]) ELSE n_ret
    /\ measure_latency_end
    /\ IF n_ret.tag = "Err"
       THEN /\ ctorRet' = n_ret
            /\ UNCHANGED <<conn, chosen, connAttempts>>
       ELSE \E tls \in TlsOutcomes :
              IF tls = "error"
              THEN /\ ctorRet' = Err(GRPCError)
                   /\ UNCHANGED <<conn, chosen, connAttempts>>
              ELSE /\ conn' = "Connecting"
                   /\ chosen' = endpoint_of(n_ret.val[1])
                   /\ connAttempts' = connAttempts + 1
                   /\ UNCHANGED ctorRet
    /\ UNCHANGED <<ctor, endpoint, bundleVars, cfgVars, callVars>>

\* mutant: a failed connect is tried once more
ConnectDoneRetry ==
    /\ conn = "Connecting"
    /\ \E r \in ConnectResults :
         IF r = "connected"
         THEN /\ conn' = "Connected"
              /\ endpoint' = chosen
              /\ ctorRet' = Ok("client")
              /\ UNCHANGED connAttempts
         ELSE IF connAttempts < 2
              THEN /\ connAttempts' = connAttempts + 1
                   /\ UNCHANGED <<conn, endpoint, ctorRet>>
              ELSE /\ conn' = "ConnectFailed"
                   /\ ctorRet' = Err(GRPCError)
                   /\ UNCHANGED <<endpoint, connAttempts>>
    /\ UNCHANGED <<ctor, chosen, measured, bundleVars, nodeVars, cfgVars, callVars>>

\* connect().await? returns: Ok(Self { client, endpoint }) or the error
ConnectDone ==
    /\ conn = "Connecting"
    /\ \E r \in ConnectResults :
         IF r = "connected"
         THEN /\ conn' = "Connected"
              /\ endpoint' = chosen
              /\ ctorRet' = Ok("client")
         ELSE /\ conn' = "ConnectFailed"
              /\ ctorRet' = Err(GRPCError)
              /\ UNCHANGED endpoint
    /\ UNCHANGED <<ctor, chosen, connAttempts, measured, bundleVars, nodeVars, cfgVars, callVars>>

NextClient ==
    \/ new
    \/ new_dynamic_region
    \/ PollProbe
    \/ ProbeDns
    \/ ProbeConnect
    \/ Aggregate
    \/ RegionMeasured
    \/ ConnectDone
    \/ MakeRetryLogicNew
    \/ send
    \/ send_with_retry
    \/ SendResponse
    \/ RetryResponseOk
    \/ RetryResponseErr
    \/ DelayElapsed
    \/ CallOver

SpecClient == InitClient /\ [][NextClient]_vars

\* ------------------------------------------------------------- properties
MaxRetries == retry_logic.max_retries
BuildOk == built.res.tag = "Ok"
InRetryCall == op = "send_with_retry"
Serializable(txns) == \A i \in 1..Len(txns) : bincode_serialize(txns[i]).tag = "Ok"
FirstFailing(txns) ==
    CHOOSE i \in 1..Len(txns) :
        /\ bincode_serialize(txns[i]).tag = "Err"
        /\ \A j \in 1..(i - 1) : bincode_serialize(txns[j]).tag = "Ok"

\* C1: a send_with_retry call with max_retries = N >= 1 whose bundle built
\* never issues more than N RPCs; every RPC before the one in flight failed;
\* it returns the identifier of the first successful RPC, which is RPC k+1
\* after k < N failures, and it returns MaxRetriesError exactly when N RPCs
\* were issued and all N failed; once it has returned, no RPC follows.
C1_AttemptCount ==
    (InRetryCall /\ BuildOk /\ MaxRetries >= 1) =>
        /\ attempts >= 1
        /\ attempts <= MaxRetries
        /\ pc = "rpc" => attempts = failures + 1
        /\ pc \in {"delay", "panic"} => attempts = failures
        /\ pc = "done" =>
             \/ /\ lastResp.tag = "Ok"
                /\ ret = Ok(lastResp.val)
                /\ failures < MaxRetries
                /\ attempts = failures + 1
             \/ /\ lastResp.tag = "Err"
                /\ ret = Err(MaxRetriesError)
                /\ failures = MaxRetries
                /\ attempts = MaxRetries

C1_NoAttemptAfterReturn ==
    pc = "done" => (pc' = "idle" /\ attempts' = 0)

C1_RetryContract == []C1_AttemptCount /\ [][C1_NoAttemptAfterReturn]_vars

C1_Witness ==
    /\ InRetryCall
    /\ pc = "done"
    /\ MaxRetries = 3
    /\ attempts = 3
    /\ failures = 2
    /\ ret = Ok("uuid1")

C1_WitnessExhausted ==
    /\ InRetryCall
    /\ pc = "done"
    /\ MaxRetries = 3
    /\ attempts = 3
    /\ failures = 3
    /\ ret = Err(MaxRetriesError)

\* C2: a send_with_retry call builds its Bundle once, before the first RPC,
\* and every RPC of the call carries the payload made from that one build.
C2_BuiltOnceSamePayload ==
    InRetryCall =>
        /\ builds = 1
        /\ built = Bundle_create(txnsIn)
        /\ attempts >= 1 =>
             /\ BuildOk
             /\ firstSent = [bundle |-> Some(built.res.val)]
             /\ lastSent = firstSent
             /\ request = firstSent

C2_Witness ==
    /\ InRetryCall
    /\ attempts = 3
    /\ Len(txnsIn) = 2
    /\ txnsIn[1] # txnsIn[2]
    /\ lastSent = firstSent

\* C3: send, once the bundle built, issues exactly one RPC and never sleeps;
\* it returns the identifier of that RPC's response, or SendError with the
\* status of that response.
C3_SendOnce ==
    (op = "send" /\ BuildOk) =>
        /\ attempts = 1
        /\ delayCount = 0
        /\ pc \in {"rpc", "done"}
        /\ pc = "done" =>
             \/ lastResp.tag = "Ok" /\ ret = Ok(lastResp.val) /\ failures = 0
             \/ lastResp.tag = "Err" /\ ret = Err(SendError(lastResp.err)) /\ failures = 1

C3_Witness ==
    /\ op = "send"
    /\ pc = "done"
    /\ attempts = 1
    /\ ret = Err(SendError("Unavailable"))

\* C4: when Bundle::create fails on the transactions of a send or
\* send_with_retry call, the call has returned that very error, with no RPC
\* issued and no delay awaited, whatever max_retries is.
C4_BuildErrorNoIO ==
    (op # "none" /\ Bundle_create(txnsIn).res.tag = "Err") =>
        /\ pc = "done"
        /\ ret = Bundle_create(txnsIn).res
        /\ ret.err \in {TooManyTxns, SerializeError}
        /\ attempts = 0
        /\ failures = 0
        /\ delayCount = 0
        /\ request = None

C4_Witness ==
    /\ InRetryCall
    /\ MaxRetries = 3
    /\ pc = "done"
    /\ Len(txnsIn) = 2
    /\ ret = Err(SerializeError)
    /\ attempts = 0

\* C5: Bundle::create on more than TXNS_LIMIT transactions fails with
\* TooManyTxns and has made no serialization call.
C5_TooManyNoSerialize ==
    (b_pc = "done" /\ Len(b_txns) > TXNS_LIMIT) =>
        /\ b_out.res = Err(TooManyTxns)
        /\ b_out.calls = 0

C5_Witness ==
    /\ b_pc = "done"
    /\ Len(b_txns) = TXNS_LIMIT + 1
    /\ Serializable(b_txns)
    /\ b_out.res = Err(TooManyTxns)

\* the packets are the serializations of the transactions, in input order
PacketsMatch(bundle, txns) ==
    /\ Len(bundle.packets) = Len(txns)
    /\ \A i \in 1..Len(txns) :
         /\ bincode_serialize(txns[i]).tag = "Ok"
         /\ bundle.packets[i].data = bincode_serialize(txns[i]).val
         /\ bundle.packets[i].meta.size = Len(bundle.packets[i].data)

\* C6 as stated: Bundle::create on at most TXNS_LIMIT transactions returns a
\* Bundle with one packet per transaction, in input order.
C6_Original ==
    (op # "none" /\ Len(txnsIn) <= TXNS_LIMIT) =>
        /\ BuildOk
        /\ PacketsMatch(built.res.val, txnsIn)

\* C6 amended: Bundle::create on at most TXNS_LIMIT transactions that all
\* serialize returns a Bundle with one packet per transaction, the i-th
\* packet carrying the serialization of the i-th transaction; no Bundle
\* produced or submitted has more than TXNS_LIMIT packets.
C6_PacketsInOrder ==
    /\ (op # "none" /\ Len(txnsIn) <= TXNS_LIMIT /\ Serializable(txnsIn)) =>
          /\ BuildOk
          /\ PacketsMatch(built.res.val, txnsIn)
    /\ (op # "none" /\ BuildOk) => Len(built.res.val.packets) <= TXNS_LIMIT
    /\ lastSent # None => Len(lastSent.bundle.val.packets) <= TXNS_LIMIT

C6_Witness ==
    /\ op = "send"
    /\ Len(txnsIn) = TXNS_LIMIT
    /\ txnsIn[1] # txnsIn[2]
    /\ BuildOk
    /\ lastSent = [bundle |-> Some(built.res.val)]
    /\ built.res.val.packets[1].data = <<1, 0, 1>>
    /\ built.res.val.packets[2].data = <<2, 0, 0, 2>>

C6_WitnessEmpty ==
    /\ op = "send"
    /\ txnsIn = <<>>
    /\ BuildOk
    /\ built.res.val.packets = <<>>
    /\ attempts = 1

\* C7: when a transaction of a list of at most TXNS_LIMIT fails to serialize,
\* Bundle::create returns SerializeError and no Bundle, and it has made
\* serialization calls up to the first failing transaction and none after.
C7_SerializeFailureAborts ==
    (b_pc = "done" /\ Len(b_txns) <= TXNS_LIMIT /\ ~Serializable(b_txns)) =>
        /\ b_out.res = Err(SerializeError)
        /\ b_out.calls = FirstFailing(b_txns)

C7_Witness ==
    /\ b_pc = "done"
    /\ Len(b_txns) = TXNS_LIMIT
    /\ ~Serializable(b_txns)
    /\ FirstFailing(b_txns) = 3
    /\ b_out.res = Err(SerializeError)
    /\ b_out.calls = 3

\* C8: new_with_wait_bounds(max_retries, min_wait, max_wait) yields
\* WaitParameterError when min_wait >= max_wait and a RetryLogic with exactly
\* the given values when min_wait < max_wait; a RetryLogic made by it that a
\* send_with_retry call runs with has min_wait < max_wait.
C8_WaitBoundsChecked ==
    cfgVia = "new_with_wait_bounds" =>
        LET mr == cfgArgs[1]
            lo == cfgArgs[2]
            hi == cfgArgs[3]
            given == [max_retries |-> mr, min_wait |-> lo, max_wait |-> hi]
        IN  /\ (cfg # None /\ lo >= hi) => cfg = Err(WaitParameterError)
            /\ (cfg # None /\ lo < hi) => cfg = Ok(given)
            /\ cfg = None => (InRetryCall /\ lo < hi /\ retry_logic = given)

C8_Witness ==
    /\ cfgVia = "new_with_wait_bounds"
    /\ cfgArgs[2] = cfgArgs[3]
    /\ cfg = Err(WaitParameterError)

C8_WitnessAccepted ==
    /\ cfgVia = "new_with_wait_bounds"
    /\ InRetryCall
    /\ retry_logic = [max_retries |-> 2, min_wait |-> 1, max_wait |-> 2]
    /\ attempts = 2

\* C9: every delay a send_with_retry call awaits lies in
\* [min_wait, max_wait] of its RetryLogic, and after every failed RPC each
\* value of that range can be the delay, whatever the attempt number.
C9_DelayInRange ==
    /\ (InRetryCall /\ (pc = "delay" \/ delayCount > 0)) =>
          /\ lastDelay >= retry_logic.min_wait
          /\ lastDelay <= retry_logic.max_wait
    /\ (InRetryCall /\ pc = "rpc") =>
          \A d \in retry_logic.min_wait .. retry_logic.max_wait :
              ENABLED (RetryResponseErr /\ pc' = "delay" /\ lastDelay' = d)

C9_Witness ==
    /\ InRetryCall
    /\ pc = "delay"
    /\ delayCount = 2
    /\ retries = 2
    /\ retry_logic = RetryLogic_new(3)
    /\ lastDelay = DEFAULT_MIN_WAIT

\* position of a region in the catalog
RegionIndex(region) == CHOOSE i \in 1..Len(ALL) : ALL[i] = region
Succeeded == { i \in 1..Len(results) : results[i][2].tag = "Ok" }

\* C10: when a probe succeeded, measure_latency returns a region whose probe
\* succeeded, with that probe's duration; no successful probe is strictly
\* faster, and no successful probe of the same duration comes earlier in ALL.
C10_FastestFirst ==
    (n_pc = "done" /\ Succeeded # {}) =>
        /\ n_ret.tag = "Ok"
        /\ LET w == RegionIndex(n_ret.val[1])
               d == n_ret.val[2]
           IN  /\ w \in Succeeded
               /\ results[w] = <<ALL[w], Ok(d)>>
               /\ \A j \in Succeeded : d <= results[j][2].val
               /\ \A j \in Succeeded : results[j][2].val = d => w <= j
               /\ Succeeded = {w} => n_ret = Ok(<<ALL[w], results[w][2].val>>)

C10_Witness ==
    /\ n_pc = "done"
    /\ results[1][2].tag = "Err"
    /\ results[2][2] = Ok(2)
    /\ results[3][2] = Ok(1)
    /\ results[5][2] = Ok(1)
    /\ n_ret = Ok(<<"FRA", 1>>)

C10_WitnessOnlyLast ==
    /\ n_pc = "done"
    /\ Succeeded = {Len(ALL)}
    /\ n_ret = Ok(<<"TOK", 2>>)

\* C11: measure_latency returns an error exactly when no probe succeeded,
\* and the error is then AllRegionLatencyMissing; when some probes fail and
\* others succeed it returns a region, never a probe's error.
C11_FailsOnlyWhenAllFail ==
    n_pc = "done" =>
        /\ n_ret.tag \in {"Ok", "Err"}
        /\ n_ret.tag = "Err" <=> Succeeded = {}
        /\ n_ret.tag = "Err" => n_ret = Err(AllRegionLatencyMissing)
        /\ n_ret.tag = "Ok" => RegionIndex(n_ret.val[1]) \in Succeeded

C11_Witness ==
    /\ n_pc = "done"
    /\ Succeeded = {}
    /\ results[1][2] = Err(DNSResolution)
    /\ results[2][2] = Err(DNSEmpty)
    /\ results[3][2] = Err(TCPConnect)
    /\ n_ret = Err(AllRegionLatencyMissing)

C11_WitnessPartial ==
    /\ n_pc = "done"
    /\ Succeeded = {4}
    /\ results[1][2] = Err(DNSResolution)
    /\ results[8][2] = Err(TCPConnect)
    /\ n_ret = Ok(<<"LN", 2>>)

\* C12: measure_latency enters one ping() per catalog entry and has a
\* result only when all Len(ALL) of them have returned, in catalog order.
C12_FullJoin ==
    /\ n_started <= Len(ALL)
    /\ Len(results) <= n_started
    /\ n_ret # None =>
         /\ n_started = Len(ALL)
         /\ Len(results) = Len(ALL)
         /\ n_stage = "none"
         /\ \A i \in 1..Len(ALL) : results[i][1] = ALL[i]

C12_Witness ==
    /\ n_pc = "done"
    /\ results[1][2] = Ok(1)
    /\ results[Len(ALL)][2].tag = "Err"
    /\ n_started = Len(ALL)
    /\ n_ret = Ok(<<"AM", 1>>)

\* C13: while a ping() is blocked in its DNS or connect call and a task is
\* still to be entered, that task can be entered: a probe in progress does
\* not hold back the start of the others.
C13_ProbesOverlap ==
    (n_pc = "join" /\ n_stage # "none" /\ n_started < Len(ALL)) => ENABLED PollProbe

\* the result of the ping() that returned last
LatestPing == results[Len(results)][2]

\* C17: one ping() makes at most one DNS resolution and at most one
\* connection attempt, the connection only after a resolution that gave an
\* address; a resolution error ends it with DNSResolution and an empty
\* resolution with DNSEmpty, both without a connection attempt, a connection
\* error ends it with TCPConnect, and only a connection made ends it with an
\* elapsed duration.
C17_SinglePing ==
    /\ n_dns <= 1
    /\ n_conn <= 1
    /\ n_conn = 1 => (n_dns = 1 /\ n_dnsOut = "addr")
    /\ n_stage = "dns" => (n_dns = 0 /\ n_conn = 0)
    /\ n_stage = "connect" => (n_dns = 1 /\ n_dnsOut = "addr" /\ n_conn = 0)
    /\ (n_stage = "none" /\ n_started >= 1) =>
         /\ Len(results) = n_started
         /\ n_dns = 1
         /\ LatestPing = Err(DNSResolution) <=> n_dnsOut = "error"
         /\ LatestPing = Err(DNSEmpty) <=> n_dnsOut = "empty"
         /\ LatestPing = Err(TCPConnect) <=> (n_dnsOut = "addr" /\ n_connOut = "error")
         /\ LatestPing.tag = "Ok" <=> (n_dnsOut = "addr" /\ n_connOut = "connected")
         /\ n_dnsOut # "addr" => n_conn = 0
         /\ n_dnsOut = "addr" => n_conn = 1

C17_Witness ==
    /\ n_pc = "join"
    /\ n_stage = "none"
    /\ n_started = 3
    /\ results[2][2] = Ok(2)
    /\ results[3][2] = Err(DNSEmpty)
    /\ n_dns = 1
    /\ n_conn = 0

C17_WitnessConnectFailed ==
    /\ n_pc = "join"
    /\ n_stage = "none"
    /\ LatestPing = Err(TCPConnect)
    /\ n_dns = 1
    /\ n_conn = 1

\* C14: once a client is connected, no step changes what get_endpoint
\* returns, leaves Connected, makes a further connect or runs a probe; the
\* endpoint is the one the constructor built its channel from.
C14_EndpointKept ==
    conn = "Connected" =>
        /\ get_endpoint = chosen
        /\ connAttempts = 1
        /\ n_pc = "idle"
        /\ n_started = 0

C14_Frame ==
    conn = "Connected" =>
        /\ conn' = "Connected"
        /\ endpoint' = endpoint
        /\ chosen' = chosen
        /\ connAttempts' = connAttempts
        /\ UNCHANGED nodeVars

C14_EndpointImmutable == []C14_EndpointKept /\ [][C14_Frame]_vars

C14_Witness ==
    /\ conn = "Connected"
    /\ ctor = "new_dynamic_region"
    /\ get_endpoint = endpoint_of("SLC")
    /\ InRetryCall
    /\ pc = "done"
    /\ attempts = 3
    /\ ret = Err(MaxRetriesError)

\* C15: in a send_with_retry call the counter counts the completed delays;
\* an RPC is in flight only when every earlier failure has had its delay, a
\* further RPC is issued only by the step that completes a delay, and
\* MaxRetriesError is returned only when every failure, the last one
\* included, has had its delay and the counter, incremented after it, has
\* reached max_retries.
C15_DelayPerFailure ==
    (InRetryCall /\ BuildOk) =>
        /\ retries = delayCount
        /\ pc = "rpc" => (delayCount = failures /\ attempts = delayCount + 1)
        /\ pc \in {"delay", "panic"} => (failures = delayCount + 1 /\ attempts = failures)
        /\ pc = "done" => delayCount = failures
        /\ (pc = "done" /\ ret.tag = "Err") =>
             /\ ret = Err(MaxRetriesError)
             /\ delayCount = attempts
             /\ delayCount >= 1
             /\ retries >= MaxRetries
             /\ retries = 1 \/ retries - 1 < MaxRetries

C15_DelayBetweenAttempts ==
    (attempts >= 1 /\ attempts' = attempts + 1) =>
        (pc = "delay" /\ delayCount' = delayCount + 1 /\ retries' = retries + 1)

C15_DelayThenCountThenStop == []C15_DelayPerFailure /\ [][C15_DelayBetweenAttempts]_vars

C15_Witness ==
    /\ InRetryCall
    /\ pc = "done"
    /\ MaxRetries = 2
    /\ attempts = 2
    /\ failures = 2
    /\ delayCount = 2
    /\ ret = Err(MaxRetriesError)

\* C16: a RetryLogic that a send_with_retry call runs with has
\* min_wait < max_wait, and jitter() never aborts the call.
C16_BoundsValid ==
    InRetryCall =>
        /\ retry_logic.min_wait < retry_logic.max_wait
        /\ pc # "panic"

\* C18: new_dynamic_region makes no connect while measure_latency runs; the
\* one connect it makes goes to the endpoint of the region measure_latency
\* returned, which is what get_endpoint of the client gives; when
\* measure_latency fails it returns that error with no connect and no client.
C18_MeasuredThenConnected ==
    ctor = "new_dynamic_region" =>
        /\ n_pc # "idle" => (conn = "Disconnected" /\ connAttempts = 0 /\ ctorRet = None)
        /\ connAttempts >= 1 =>
             /\ measured.tag = "Ok"
             /\ chosen = endpoint_of(measured.val)
        /\ conn = "Connected" => get_endpoint = endpoint_of(measured.val)
        /\ measured.tag = "Err" =>
             /\ connAttempts = 0
             /\ conn = "Disconnected"
             /\ ctorRet = Err(AllRegionLatencyMissing)
             /\ endpoint = None

C18_MeasuredIsReturned ==
    (ctor = "new_dynamic_region" /\ n_pc = "done" /\ n_pc' = "idle") =>
        /\ n_ret.tag = "Ok" => measured' = Ok(n_ret.val[1])
        /\ n_ret.tag = "Err" => measured' = n_ret

C18_DynamicRegion == []C18_MeasuredThenConnected /\ [][C18_MeasuredIsReturned]_vars

C18_Witness ==
    /\ ctor = "new_dynamic_region"
    /\ conn = "Connected"
    /\ measured = Ok("TOK")
    /\ get_endpoint = endpoint_of("TOK")

C18_WitnessUnreachable ==
    /\ ctor = "new_dynamic_region"
    /\ measured = Err(AllRegionLatencyMissing)
    /\ ctorRet = Err(AllRegionLatencyMissing)
    /\ connAttempts = 0

\* the states of a client and the steps between them
ConnStep ==
    \/ conn' = conn
    \/ conn = "Disconnected" /\ conn' = "Connecting"
    \/ conn = "Connecting" /\ conn' \in {"Connected", "ConnectFailed"}

\* C19 as stated: every constructor that has returned made exactly one
\* connect; a failed one gave the error and no client; an RPC is issued only
\* by a connected client, and Connected is never left.
C19_Original ==
    /\ ctorRet # None => connAttempts = 1
    /\ ctorRet.tag = "Err" => endpoint = None
    /\ (op # "none" \/ attempts >= 1) => conn = "Connected"

\* C19 amended: a constructor makes at most one connect, and none when it
\* fails before connecting; a client goes Disconnected, Connecting, then
\* Connected or ConnectFailed; a failed connect gives the error and no
\* client, with no second connect; an RPC is issued only by a connected
\* client, and Connected is never left.
C19_ConnStates ==
    /\ connAttempts <= 1
    /\ conn \in {"Disconnected", "Connecting", "Connected", "ConnectFailed"}
    /\ conn \in {"Connecting", "Connected", "ConnectFailed"} => connAttempts = 1
    /\ conn = "Disconnected" => connAttempts = 0
    /\ conn = "Connecting" => ctorRet = None
    /\ conn = "ConnectFailed" => ctorRet = Err(GRPCError)
    /\ conn = "Connected" <=> ctorRet = Ok("client")
    /\ conn # "Connected" => endpoint = None
    /\ conn = "Connected" => get_endpoint = chosen
    /\ (op # "none" \/ attempts >= 1 \/ pc # "idle") => conn = "Connected"

C19_StateMachine == []C19_ConnStates /\ [][ConnStep]_vars

C19_Witness ==
    /\ ctor = "new_dynamic_region"
    /\ conn = "ConnectFailed"
    /\ connAttempts = 1
    /\ ctorRet = Err(GRPCError)
    /\ endpoint = None

C19_WitnessSubmitting ==
    /\ ctor = "new"
    /\ conn = "Connected"
    /\ pc = "rpc"
    /\ attempts = 2

AtMostRpcs == IF MaxRetries >= 1 THEN MaxRetries ELSE 1

\* C20: RetryLogic::new and new_with_wait_bounds accept max_retries = 0; a
\* send_with_retry call whose bundle built issues at least one RPC and at
\* most max(1, max_retries); with max_retries = 0 it issues exactly one and
\* returns its identifier with no delay, or MaxRetriesError after one delay.
C20_ZeroRetries ==
    /\ (cfg # None /\ cfgVia = "new") => cfg = Ok(RetryLogic_new(cfgArgs[1]))
    /\ (cfg # None /\ cfgVia = "new_with_wait_bounds" /\ cfgArgs[2] < cfgArgs[3]) =>
          (cfg.tag = "Ok" /\ cfg.val.max_retries = cfgArgs[1])
    /\ (InRetryCall /\ BuildOk) =>
          /\ attempts >= 1
          /\ attempts <= AtMostRpcs
          /\ MaxRetries = 0 =>
               /\ attempts = 1
               /\ pc = "done" =>
                    \/ lastResp.tag = "Ok" /\ ret = Ok(lastResp.val) /\ delayCount = 0
                    \/ lastResp.tag = "Err" /\ ret = Err(MaxRetriesError) /\ delayCount = 1

C20_Witness ==
    /\ InRetryCall
    /\ cfgVia = "new_with_wait_bounds"
    /\ MaxRetries = 0
    /\ pc = "done"
    /\ attempts = 1
    /\ delayCount = 1
    /\ ret = Err(MaxRetriesError)

\* C21: the u8 counter of send_with_retry never wraps: every change of it
\* inside a call is an increment by one from a value below 255; at every RPC
\* and at every return it equals the number of failed RPCs (while the delay
\* of a failure is awaited, that failure is the one not yet counted), and it
\* is at most max(1, max_retries) <= 255, for every max_retries in 0..255.
C21_CounterBounded ==
    (InRetryCall /\ BuildOk) =>
        /\ MaxRetries \in 0..U8_MAX
        /\ retries <= AtMostRpcs
        /\ AtMostRpcs <= U8_MAX
        /\ pc \in {"rpc", "done"} => retries = failures
        /\ pc \in {"delay", "panic"} => retries + 1 = failures

C21_IncrementExact ==
    (InRetryCall /\ pc' # "idle" /\ retries' # retries) =>
        (retries < U8_MAX /\ retries' = retries + 1)

C22_EventuallyReturns == InRetryCall ~> (pc = "done")

\* with a RetryLogic made by new_with_wait_bounds the call does return, for
\* every max_retries in 0..255
C22_ReturnsWithValidBounds == (InRetryCall /\ pc = "rpc") ~> (pc = "done")

\* in general a call returns or aborts in jitter()
C22_ReturnsOrAborts == InRetryCall ~> (pc \in {"done", "panic"})

====
